---------------------------- MODULE Spec2Model ----------------------------
(***************************************************************************)
(* Model of the invoice reconciliation programs find_debtors.py and        *)
(* parse_invoices.py.                                                      *)
(*                                                                         *)
(* Python strings are sequences of one-character strings.  Money amounts   *)
(* are integers.  An optional value (Python None or a value) is a sequence *)
(* of length 0 or 1.                                                       *)
(***************************************************************************)
EXTENDS Integers, Sequences, FiniteSets, TLC

VARIABLES
    \* analyze_debts (find_debtors.py)
    invoices_df,          \* rows of table arved, load_invoices()
    payments_df,          \* rows of payments.csv, load_payments()
    invoice_payments,     \* dict (name, invoice number) -> paid total
    unmatched_payments,   \* list of dicts name / amount / date
    debtors,              \* list of debtor dicts
    pc,                   \* position inside analyze_debts
    pi,                   \* index of the next payment row
    ii,                   \* index of the next invoice row
    run,                  \* which call of analyze_debts this is (1 or 2)
    first_result,         \* what the first call returned
    \* history of the current call of analyze_debts
    unmatched_src,        \* payment row behind each entry of unmatched_payments
    unmatched_at_agg,     \* Some(unmatched_payments when aggregation ended), None before
    outcome,              \* per invoice handled: "settled", "fallback", "debtor"
    cleared_by,           \* per invoice handled: payment row the fallback used, or 0
    credited_rows,        \* payment rows added to invoice_payments
    \* normalize_name called on its own
    nn_name, nn_result, nn_pc,
    \* parse_all_invoices (parse_invoices.py)
    documents,            \* the files of the invoices folder, in listdir order
    arved,                \* rows of table arved, in insertion order
    total_processed,
    fi,                   \* index of the next file
    reported,             \* indices of the files whose error was printed
    ppc

vars == <<invoices_df, payments_df, invoice_payments, unmatched_payments, debtors,
          pc, pi, ii, run, first_result, unmatched_src, unmatched_at_agg, outcome,
          cleared_by, credited_rows, nn_name, nn_result, nn_pc,
          documents, arved, total_processed, fi, reported, ppc>>

debt_vars == <<invoices_df, payments_df, invoice_payments, unmatched_payments, debtors,
               pc, pi, ii, run, first_result, unmatched_src, unmatched_at_agg, outcome,
               cleared_by, credited_rows>>
name_vars == <<nn_name, nn_result, nn_pc>>
parse_vars == <<documents, arved, total_processed, fi, reported, ppc>>

---------------------------------------------------------------------------
(* Bounds of the model *)

MaxPayments == 2
MaxInvoices == 2
MaxNameLen == 4
MaxDocs == 3

---------------------------------------------------------------------------
(* Python values *)

None == <<>>
Some(v) == <<v>>

Range(s) == { s[i] : i \in 1..Len(s) }

RECURSIVE SumSeq(_)
SumSeq(s) == IF s = <<>> THEN 0 ELSE Head(s) + SumSeq(Tail(s))

RECURSIVE SetToSeq(_)
SetToSeq(S) == IF S = {} THEN <<>>
               ELSE LET x == CHOOSE y \in S : TRUE
                    IN <<x>> \o SetToSeq(S \ {x})

\* All sequences over S of length at most n
SeqsUpTo(S, n) == UNION { [1..k -> S] : k \in 0..n }

---------------------------------------------------------------------------
(* Python str operations *)

LowerOf == [A |-> "a", B |-> "b", C |-> "c", D |-> "d", E |-> "e", F |-> "f",
            G |-> "g", H |-> "h", I |-> "i", J |-> "j", K |-> "k", L |-> "l",
            M |-> "m", N |-> "n", O |-> "o", P |-> "p", Q |-> "q", R |-> "r",
            S |-> "s", T |-> "t", U |-> "u", V |-> "v", W |-> "w", X |-> "x",
            Y |-> "y", Z |-> "z"]
UpperOf == [a |-> "A", b |-> "B", c |-> "C", d |-> "D", e |-> "E", f |-> "F",
            g |-> "G", h |-> "H", i |-> "I", j |-> "J", k |-> "K", l |-> "L",
            m |-> "M", n |-> "N", o |-> "O", p |-> "P", q |-> "Q", r |-> "R",
            s |-> "S", t |-> "T", u |-> "U", v |-> "V", w |-> "W", x |-> "X",
            y |-> "Y", z |-> "Z"]

IsUpper(c) == c \in DOMAIN LowerOf
IsLower(c) == c \in DOMAIN UpperOf
IsCased(c) == IsUpper(c) \/ IsLower(c)
ToLower(c) == IF IsUpper(c) THEN LowerOf[c] ELSE c
ToUpper(c) == IF IsLower(c) THEN UpperOf[c] ELSE c
IsSpace(c) == c = " "
IsDigit(c) == c \in {"0", "1", "2", "3", "4", "5", "6", "7", "8", "9"}
DigitValue(c) == CASE c = "0" -> 0 [] c = "1" -> 1 [] c = "2" -> 2 [] c = "3" -> 3
                   [] c = "4" -> 4 [] c = "5" -> 5 [] c = "6" -> 6 [] c = "7" -> 7
                   [] c = "8" -> 8 [] c = "9" -> 9

\* str.lower()
lower(s) == [i \in 1..Len(s) |-> ToLower(s[i])]

\* str.title(): a cased character is upper-cased when the character before it is
\* uncased, lower-cased otherwise
title(s) == [i \in 1..Len(s) |->
               IF i > 1 /\ IsCased(s[i-1]) THEN ToLower(s[i]) ELSE ToUpper(s[i])]

\* str.strip()
RECURSIVE lstrip(_)
lstrip(s) == IF s # <<>> /\ IsSpace(Head(s)) THEN lstrip(Tail(s)) ELSE s
RECURSIVE rstrip(_)
rstrip(s) == IF s # <<>> /\ IsSpace(s[Len(s)]) THEN rstrip(SubSeq(s, 1, Len(s) - 1)) ELSE s
strip(s) == rstrip(lstrip(s))

\* str.split(sep) for a one-character separator: every occurrence splits
RECURSIVE split_sep(_, _)
split_sep(s, sep) ==
    IF \E i \in 1..Len(s) : s[i] = sep
    THEN LET i == CHOOSE j \in 1..Len(s) : s[j] = sep /\ \A k \in 1..(j-1) : s[k] # sep
         IN <<SubSeq(s, 1, i - 1)>> \o split_sep(SubSeq(s, i + 1, Len(s)), sep)
    ELSE <<s>>

\* str.split(): the maximal runs of non-whitespace characters
RECURSIVE split(_)
split(s) ==
    LET t == lstrip(s)
    IN IF t = <<>> THEN <<>>
       ELSE LET e == IF \E i \in 1..Len(t) : IsSpace(t[i])
                     THEN (CHOOSE j \in 1..Len(t) :
                              IsSpace(t[j]) /\ \A k \in 1..(j-1) : ~IsSpace(t[k])) - 1
                     ELSE Len(t)
            IN <<SubSeq(t, 1, e)>> \o split(SubSeq(t, e + 1, Len(t)))

\* int() of a string of decimal digits
RECURSIVE int(_)
int(s) == IF s = <<>> THEN 0 ELSE 10 * int(SubSeq(s, 1, Len(s) - 1)) + DigitValue(s[Len(s)])

---------------------------------------------------------------------------
(* find_debtors.py: normalize_name *)

\* "lastname, firstname = name.split(',')" raises ValueError unless the split
\* gives exactly two parts
normalize_name_raises(name) ==
    "," \in Range(name) /\ Len(split_sep(name, ",")) # 2

normalize_name(name) ==
    IF "," \in Range(name)
    THEN LET lastname == split_sep(name, ",")[1]
             firstname == split_sep(name, ",")[2]
         IN { title(strip(firstname)) \o <<" ">> \o title(strip(lastname)) }
    ELSE LET parts == split(name)
         IN IF Len(parts) = 2
            THEN { parts[1] \o <<" ">> \o parts[2], parts[2] \o <<" ">> \o parts[1] }
            ELSE { name }

---------------------------------------------------------------------------
(* find_debtors.py: extract_invoice_number *)

\* The maximal run of digits of s that starts at position i: what (\d+) captures
RECURSIVE digits_at(_, _)
digits_at(s, i) ==
    IF i <= Len(s) /\ IsDigit(s[i]) THEN <<s[i]>> \o digits_at(s, i + 1) ELSE <<>>

\* The position after the longest run of '.', ':' and ' ' that starts at i: [.: ]*
RECURSIVE skip_separators(_, _)
skip_separators(s, i) ==
    IF i <= Len(s) /\ s[i] \in {".", ":", " "} THEN skip_separators(s, i + 1) ELSE i

\* Whether label[.: ]*(\d+) matches at position i of s, ignoring case
label_matches_at(label, s, i) ==
    /\ i + Len(label) - 1 <= Len(s)
    /\ lower(SubSeq(s, i, i + Len(label) - 1)) = lower(label)
    /\ digits_at(s, skip_separators(s, i + Len(label))) # <<>>

\* re.search(r'label[.: ]*(\d+)', s, re.IGNORECASE): group 1 of the leftmost
\* match, or None
search_label(label, s) ==
    IF \E i \in 1..Len(s) : label_matches_at(label, s, i)
    THEN LET i == CHOOSE j \in 1..Len(s) :
                     /\ label_matches_at(label, s, j)
                     /\ \A k \in 1..(j-1) : ~label_matches_at(label, s, k)
         IN Some(digits_at(s, skip_separators(s, i + Len(label))))
    ELSE None

\* re.search(r'.*?(\d+).*', s, re.IGNORECASE): the first run of digits, or None
search_any_number(s) ==
    IF \E i \in 1..Len(s) : IsDigit(s[i])
    THEN LET i == CHOOSE j \in 1..Len(s) :
                     IsDigit(s[j]) /\ \A k \in 1..(j-1) : ~IsDigit(s[k])
         IN Some(digits_at(s, i))
    ELSE None

\* The labelled patterns, in the order of the list "patterns"
patterns == << <<"A","r","v","e"," ","n","r">>,
               <<"A","R","V","E"," ","N","R">>,
               <<"A","r","v","e"," ","n","u","m","b","e","r">>,
               <<"A","R","V","E">>,
               <<"A","r","v","e">>,
               <<"T","a","s","u","m","i","n","e"," ","a","r","v","e">> >>

\* The loop over the patterns from the k-th on; the last resort comes last
RECURSIVE search_patterns(_, _)
search_patterns(k, description) ==
    IF k > Len(patterns)
    THEN search_any_number(description)
    ELSE IF search_label(patterns[k], description) # None
         THEN search_label(patterns[k], description)
         ELSE search_patterns(k + 1, description)

\* None, or Some(invoice number)
extract_invoice_number(description) ==
    LET match == search_patterns(1, description)
    IN IF match # None THEN Some(int(match[1])) ELSE None

\* Python truth value of "invoice_number": None and 0 are false
number_is_truthy(invoice_number) ==
    invoice_number # None /\ invoice_number[1] # 0

---------------------------------------------------------------------------
(* find_debtors.py: the input rows *)

MartTamm == <<"M","a","r","t"," ","T","a","m","m">>
TammMart == <<"T","a","m","m"," ","M","a","r","t">>
TammCommaMart == <<"T","a","m","m",","," ","M","a","r","t">>
TAMMCommaMart == <<"T","A","M","M",","," ","m","a","r","t">>
TammMartJr == <<"T","a","m","m",","," ","M","a","r","t",","," ","j","r">>
MariMaasikas == <<"M","a","r","i"," ","M","a","a","s","i","k","a","s">>

ArveNr10 == <<"A","r","v","e"," ","n","r"," ","1","0">>
ArveNr0 == <<"A","r","v","e"," ","n","r"," ","0">>
ARVE10 == <<"A","R","V","E",":"," ","1","0">>
Ref7A9 == <<"r","e","f"," ","7","A","9">>
Thanks == <<"t","h","a","n","k","s">>

PaymentRow(payer, description, amount) ==
    [payer |-> payer, payment_date |-> "05.02.2024", description |-> description,
     amount |-> amount]

\* Rows payments.csv may hold
PaymentRows ==
    { PaymentRow(TammMart, ArveNr10, 60),
      PaymentRow(MartTamm, ARVE10, 40),
      PaymentRow(TAMMCommaMart, Ref7A9, 40),
      PaymentRow(TammMart, ArveNr0, 100),
      PaymentRow(MartTamm, Thanks, 100),
      PaymentRow(MariMaasikas, Thanks, 100),
      PaymentRow(TammCommaMart, Thanks, 40),
      PaymentRow(TammMartJr, ARVE10, 60) }

InvoiceRow(number, klient, summa) ==
    [number |-> number, klient |-> klient, kuupaev |-> "01.01.2024",
     tahtaeg |-> "15.01.2024", summa |-> summa]

\* Rows table arved may hold
InvoiceRows ==
    { InvoiceRow(10, MartTamm, 100),
      InvoiceRow(7, MartTamm, 100),
      InvoiceRow(7, MartTamm, 40),
      InvoiceRow(0, TammCommaMart, 100),
      InvoiceRow(11, MariMaasikas, 100),
      InvoiceRow(12, TammMartJr, 100) }

\* number is the PRIMARY KEY of table arved
numbers_unique(rows) ==
    \A i, j \in 1..Len(rows) : rows[i].number = rows[j].number => i = j

---------------------------------------------------------------------------
(* find_debtors.py: analyze_debts *)

\* dict.get(key, default)
dict_get(d, key, default) == IF key \in DOMAIN d THEN d[key] ELSE default

\* if key not in d: d[key] = 0; d[key] += amount
dict_add(d, key, amount) ==
    [k \in DOMAIN d \cup {key} |-> dict_get(d, k, 0) + (IF k = key THEN amount ELSE 0)]

\* for name in possible_names: invoice_payments[(name, invoice_number)] += amount
RECURSIVE credit_names(_, _, _, _)
credit_names(d, names, invoice_number, amount) ==
    IF names = <<>> THEN d
    ELSE credit_names(dict_add(d, <<Head(names), invoice_number>>, amount),
                      Tail(names), invoice_number, amount)

\* The dict appended to unmatched_payments
unmatched_entry(payment) ==
    [name |-> payment.payer, amount |-> payment.amount, date |-> payment.payment_date]

\* paid_amount_of gone wrong: the totals of all the variants of the client name
\* are added up
paid_amount_any_variant(d, invoice) ==
    SumSeq([k \in 1..Cardinality(normalize_name(invoice.klient)) |->
               dict_get(d, <<SetToSeq(normalize_name(invoice.klient))[k], invoice.number>>, 0)])

\* paid_amount = invoice_payments.get((klient, number), 0)
paid_amount_of(d, invoice) == dict_get(d, <<invoice.klient, invoice.number>>, 0)

\* is_underpaid gone wrong: an exactly paid invoice counts as underpaid
is_underpaid_or_exact(paid_amount, invoice) == paid_amount <= invoice.summa

\* paid_amount < invoice['summa']
is_underpaid(paid_amount, invoice) == paid_amount < invoice.summa

\* The condition of the fallback scan
entry_matches(invoice_name_variants, payment, invoice) ==
    /\ (invoice_name_variants \cap normalize_name(payment.name)) # {}
    /\ payment.amount = invoice.summa

\* find_matching_payment gone wrong: the scan does not stop at the first match
find_last_matching_payment(unmatched, invoice) ==
    LET invoice_name_variants == normalize_name(invoice.klient)
        hits == { k \in 1..Len(unmatched) :
                     entry_matches(invoice_name_variants, unmatched[k], invoice) }
    IN IF hits = {} THEN 0 ELSE CHOOSE k \in hits : \A h \in hits : k >= h

\* The fallback scan: the position of matching_payment, 0 when it stays None
find_matching_payment(unmatched, invoice) ==
    LET invoice_name_variants == normalize_name(invoice.klient)
        hits == { k \in 1..Len(unmatched) :
                     entry_matches(invoice_name_variants, unmatched[k], invoice) }
    IN IF hits = {} THEN 0 ELSE CHOOSE k \in hits : \A h \in hits : k <= h

\* The position list.remove(value) removes: that of the first equal element
index_of(list, value) ==
    CHOOSE k \in 1..Len(list) : list[k] = value /\ \A h \in 1..(k-1) : list[h] # value

remove_at(list, k) == SubSeq(list, 1, k - 1) \o SubSeq(list, k + 1, Len(list))

\* list_remove gone wrong: the matched payment stays in the list
list_remove_nothing(list, value) == list

\* list.remove(value)
list_remove(list, value) == remove_at(list, index_of(list, value))

\* The dict appended to debtors
debtor_entry(invoice, paid_amount) ==
    [client |-> invoice.klient, invoice_number |-> invoice.number,
     invoice_date |-> invoice.kuupaev, invoice_amount |-> invoice.summa,
     paid_amount |-> paid_amount, debt |-> invoice.summa - paid_amount]

\* The state analyze_debts starts from: the loaded rows and the empty locals
Init ==
    /\ payments_df \in SeqsUpTo(PaymentRows, MaxPayments)
    /\ invoices_df \in { rows \in SeqsUpTo(InvoiceRows, MaxInvoices) : numbers_unique(rows) }
    /\ invoice_payments = <<>>
    /\ unmatched_payments = <<>>
    /\ debtors = <<>>
    /\ pc = "payments"
    /\ pi = 1
    /\ ii = 1
    /\ run = 1
    /\ first_result = <<>>
    /\ unmatched_src = <<>>
    /\ unmatched_at_agg = None
    /\ outcome = <<>>
    /\ cleared_by = <<>>
    /\ credited_rows = {}
    /\ nn_name = <<>> /\ nn_result = {} /\ nn_pc = "idle"
    /\ documents = <<>> /\ arved = <<>> /\ total_processed = 0 /\ fi = 1
    /\ reported = <<>> /\ ppc = "idle"

\* One iteration of "for _, payment in payments_df.iterrows()"
ProcessPayment ==
    /\ pc = "payments"
    /\ pi <= Len(payments_df)
    /\ LET payment == payments_df[pi]
       IN IF normalize_name_raises(payment.payer)
          THEN /\ pc' = "raised"
               /\ UNCHANGED <<invoice_payments, unmatched_payments, pi,
                              unmatched_src, credited_rows>>
          ELSE LET possible_names == normalize_name(payment.payer)
                   invoice_number == extract_invoice_number(payment.description)
               IN /\ pc' = pc
                  /\ pi' = pi + 1
                  /\ IF number_is_truthy(invoice_number) /\ possible_names # {}
                     THEN /\ invoice_payments' =
                                 credit_names(invoice_payments, SetToSeq(possible_names),
                                              invoice_number[1], payment.amount)
                          /\ credited_rows' = credited_rows \cup {pi}
                          /\ UNCHANGED <<unmatched_payments, unmatched_src>>
                     ELSE /\ unmatched_payments' =
                                 Append(unmatched_payments, unmatched_entry(payment))
                          /\ unmatched_src' = Append(unmatched_src, pi)
                          /\ UNCHANGED <<invoice_payments, credited_rows>>
    /\ UNCHANGED <<invoices_df, payments_df, debtors, ii, run, first_result,
                   unmatched_at_agg, outcome, cleared_by>>
    /\ UNCHANGED <<name_vars, parse_vars>>

\* The payment loop is over: debtors = []
FindDebts ==
    /\ pc = "payments"
    /\ pi > Len(payments_df)
    /\ pc' = "invoices"
    /\ debtors' = <<>>
    /\ unmatched_at_agg' = Some(unmatched_payments)
    /\ UNCHANGED <<invoices_df, payments_df, invoice_payments, unmatched_payments,
                   pi, ii, run, first_result, unmatched_src, outcome, cleared_by,
                   credited_rows>>
    /\ UNCHANGED <<name_vars, parse_vars>>

\* One iteration of "for _, invoice in invoices_df.iterrows()"
ReconcileInvoice ==
    /\ pc = "invoices"
    /\ ii <= Len(invoices_df)
    /\ LET invoice == invoices_df[ii]
           paid_amount == paid_amount_of(invoice_payments, invoice)
       IN IF ~is_underpaid(paid_amount, invoice)
          THEN /\ outcome' = Append(outcome, "settled")
               /\ cleared_by' = Append(cleared_by, 0)
               /\ ii' = ii + 1
               /\ UNCHANGED <<pc, unmatched_payments, unmatched_src, debtors>>
          ELSE IF normalize_name_raises(invoice.klient)
          THEN /\ pc' = "raised"
               /\ UNCHANGED <<ii, outcome, cleared_by, unmatched_payments,
                              unmatched_src, debtors>>
          ELSE LET found == find_matching_payment(unmatched_payments, invoice)
               IN IF found # 0
                  THEN LET matching_payment == unmatched_payments[found]
                           gone == index_of(unmatched_payments, matching_payment)
                       IN /\ unmatched_payments' =
                                 list_remove(unmatched_payments, matching_payment)
                          /\ unmatched_src' = remove_at(unmatched_src, gone)
                          /\ outcome' = Append(outcome, "fallback")
                          /\ cleared_by' = Append(cleared_by, unmatched_src[gone])
                          /\ ii' = ii + 1
                          /\ UNCHANGED <<pc, debtors>>
                  ELSE /\ debtors' = Append(debtors, debtor_entry(invoice, paid_amount))
                       /\ outcome' = Append(outcome, "debtor")
                       /\ cleared_by' = Append(cleared_by, 0)
                       /\ ii' = ii + 1
                       /\ UNCHANGED <<pc, unmatched_payments, unmatched_src>>
    /\ UNCHANGED <<invoices_df, payments_df, invoice_payments, pi, run, first_result,
                   unmatched_at_agg, credited_rows>>
    /\ UNCHANGED <<name_vars, parse_vars>>

\* return debtors
ReturnDebtors ==
    /\ pc = "invoices"
    /\ ii > Len(invoices_df)
    /\ pc' = "returned"
    /\ UNCHANGED <<invoices_df, payments_df, invoice_payments, unmatched_payments,
                   debtors, pi, ii, run, first_result, unmatched_src,
                   unmatched_at_agg, outcome, cleared_by, credited_rows>>
    /\ UNCHANGED <<name_vars, parse_vars>>

\* CallAgain gone wrong: the second call reconciles against the map and the
\* unmatched list the first call left behind instead of building its own
CallAgainOnSameLists ==
    /\ pc = "returned"
    /\ run = 1
    /\ run' = 2
    /\ first_result' = debtors
    /\ debtors' = <<>>
    /\ pc' = "invoices"
    /\ ii' = 1
    /\ unmatched_at_agg' = Some(unmatched_payments)
    /\ outcome' = <<>>
    /\ cleared_by' = <<>>
    /\ UNCHANGED <<invoices_df, payments_df, invoice_payments, unmatched_payments,
                   pi, unmatched_src, credited_rows>>
    /\ UNCHANGED <<name_vars, parse_vars>>

\* analyze_debts is called again on the same files: its locals are created anew
CallAgain ==
    /\ pc = "returned"
    /\ run = 1
    /\ run' = 2
    /\ first_result' = debtors
    /\ invoice_payments' = <<>>
    /\ unmatched_payments' = <<>>
    /\ debtors' = <<>>
    /\ pc' = "payments"
    /\ pi' = 1
    /\ ii' = 1
    /\ unmatched_src' = <<>>
    /\ unmatched_at_agg' = None
    /\ outcome' = <<>>
    /\ cleared_by' = <<>>
    /\ credited_rows' = {}
    /\ UNCHANGED <<invoices_df, payments_df>>
    /\ UNCHANGED <<name_vars, parse_vars>>

Next == ProcessPayment \/ FindDebts \/ ReconcileInvoice \/ ReturnDebtors \/ CallAgain

Spec == Init /\ [][Next]_vars

---------------------------------------------------------------------------
(* find_debtors.py: normalize_name called on every short name *)

NameChars == {"a", "B", " ", ","}

\* analyze_debts at rest
DebtsIdle ==
    /\ payments_df = <<>> /\ invoices_df = <<>> /\ invoice_payments = <<>>
    /\ unmatched_payments = <<>> /\ debtors = <<>> /\ pc = "idle" /\ pi = 1 /\ ii = 1
    /\ run = 1 /\ first_result = <<>> /\ unmatched_src = <<>>
    /\ unmatched_at_agg = None /\ outcome = <<>> /\ cleared_by = <<>>
    /\ credited_rows = {}

InitNames ==
    /\ nn_name \in SeqsUpTo(NameChars, MaxNameLen)
    /\ nn_result = {}
    /\ nn_pc = "call"
    /\ DebtsIdle
    /\ documents = <<>> /\ arved = <<>> /\ total_processed = 0 /\ fi = 1
    /\ reported = <<>> /\ ppc = "idle"

CallNormalizeName ==
    /\ nn_pc = "call"
    /\ IF normalize_name_raises(nn_name)
       THEN nn_pc' = "raised" /\ nn_result' = nn_result
       ELSE nn_pc' = "returned" /\ nn_result' = normalize_name(nn_name)
    /\ UNCHANGED nn_name
    /\ UNCHANGED <<debt_vars, parse_vars>>

NextNames == CallNormalizeName

SpecNames == InitNames /\ [][NextNames]_vars

---------------------------------------------------------------------------
(* parse_invoices.py *)

\* A file of the invoices folder: whether its name ends with '.pdf', whether
\* pdfplumber gets the text of its first page, and what each re.search on that
\* text captures (None when it finds no match)
Document(is_pdf, has_text, number, klient, summa) ==
    [is_pdf |-> is_pdf, has_text |-> has_text, number |-> number, klient |-> klient,
     kuupaev |-> Some("01.01.2024"), tahtaeg |-> Some("15.01.2024"), summa |-> summa]

DocumentFiles ==
    { Document(TRUE, TRUE, Some(10), Some(MartTamm), Some(100)),
      Document(TRUE, TRUE, Some(11), Some(MariMaasikas), Some(50)),
      Document(TRUE, TRUE, Some(10), Some(MariMaasikas), Some(40)),
      Document(TRUE, TRUE, Some(12), Some(MartTamm), None),
      Document(TRUE, TRUE, None, None, Some(100)),
      Document(TRUE, FALSE, None, None, None),
      Document(FALSE, TRUE, Some(13), Some(MartTamm), Some(100)) }

RequiredFields == {"number", "klient", "kuupaev", "tahtaeg", "summa"}

\* missing_fields of extract_data_from_pdf
missing_fields(doc) == { f \in RequiredFields : doc[f] = None }

\* extract_data_from_pdf raises: the text cannot be had, or a field is missing
extract_data_raises(doc) == ~doc.has_text \/ missing_fields(doc) # {}

\* The dict extract_data_from_pdf returns
extract_data_from_pdf(doc) ==
    [number |-> doc.number[1], klient |-> doc.klient[1], kuupaev |-> doc.kuupaev[1],
     tahtaeg |-> doc.tahtaeg[1], summa |-> doc.summa[1]]

\* insert_raises gone wrong: number is no key of the table
insert_never_raises(table, data) == FALSE

\* INSERT INTO arved raises IntegrityError: number is the PRIMARY KEY
insert_raises(table, data) == \E k \in 1..Len(table) : table[k].number = data.number

\* What parsed_invoices.db may hold before the run
OldTables == { <<>>, <<InvoiceRow(10, MariMaasikas, 100)>> }

InitParse ==
    /\ documents \in SeqsUpTo(DocumentFiles, MaxDocs)
    /\ arved \in OldTables
    /\ total_processed = 0
    /\ fi = 1
    /\ reported = <<>>
    /\ ppc = "start"
    /\ DebtsIdle
    /\ nn_name = <<>> /\ nn_result = {} /\ nn_pc = "idle"

\* create_invoice_db: DROP TABLE IF EXISTS arved, CREATE TABLE arved
CreateInvoiceDb ==
    /\ ppc = "start"
    /\ arved' = <<>>
    /\ total_processed' = 0
    /\ ppc' = "files"
    /\ UNCHANGED <<documents, fi, reported>>
    /\ UNCHANGED <<debt_vars, name_vars>>

\* One iteration of "for filename in os.listdir(invoice_folder)"
ProcessFile ==
    /\ ppc = "files"
    /\ fi <= Len(documents)
    /\ fi' = fi + 1
    /\ LET doc == documents[fi]
       IN IF ~doc.is_pdf
          THEN UNCHANGED <<arved, total_processed, reported>>
          ELSE IF extract_data_raises(doc)
          THEN /\ reported' = Append(reported, fi)
               /\ UNCHANGED <<arved, total_processed>>
          ELSE IF insert_raises(arved, extract_data_from_pdf(doc))
          THEN /\ reported' = Append(reported, fi)
               /\ UNCHANGED <<arved, total_processed>>
          ELSE /\ arved' = Append(arved, extract_data_from_pdf(doc))
               /\ total_processed' = total_processed + 1
               /\ UNCHANGED reported
    /\ UNCHANGED <<documents, ppc>>
    /\ UNCHANGED <<debt_vars, name_vars>>

\* conn.commit(), conn.close() and the closing message
FinishParse ==
    /\ ppc = "files"
    /\ fi > Len(documents)
    /\ ppc' = "done"
    /\ UNCHANGED <<documents, arved, total_processed, fi, reported>>
    /\ UNCHANGED <<debt_vars, name_vars>>

NextParse == CreateInvoiceDb \/ ProcessFile \/ FinishParse

SpecParse == InitParse /\ [][NextParse]_vars

---------------------------------------------------------------------------
(* Vocabulary of the properties *)

\* The payment rows handled so far by the payment loop of the current call
processed_rows == 1..(pi - 1)

\* Whether analyze_debts has got as far as invoice i
taken_up(i) == i < ii \/ (i = ii /\ pc = "raised")

\* extract_invoice_number and normalize_name, tabulated over the descriptions and
\* the names of the input rows (normalize_name where it returns)
ExtractedNumber ==
    [d \in { r.description : r \in PaymentRows } |-> extract_invoice_number(d)]

NameVariants ==
    [n \in { m \in { r.payer : r \in PaymentRows } \cup { r.klient : r \in InvoiceRows } :
                ~normalize_name_raises(m) } |-> normalize_name(n)]

extracted(p) == ExtractedNumber[payments_df[p].description]

variants_of_payer(p) == NameVariants[payments_df[p].payer]

RECURSIVE sum_of_amounts(_)
sum_of_amounts(rows) ==
    IF rows = {} THEN 0
    ELSE LET p == CHOOSE q \in rows : TRUE
         IN payments_df[p].amount + sum_of_amounts(rows \ {p})

\* The total found under (raw client name, invoice number), 0 if absent
looked_up(invoice) ==
    IF <<invoice.klient, invoice.number>> \in DOMAIN invoice_payments
    THEN invoice_payments[<<invoice.klient, invoice.number>>]
    ELSE 0

\* An unmatched entry the fallback may use for the invoice: the name variant
\* sets intersect and the amount is the invoice's total
fits(entry, invoice) ==
    /\ entry.amount = invoice.summa
    /\ \E v \in NameVariants[invoice.klient] : v \in NameVariants[entry.name]

fitting_positions(list, invoice) ==
    { k \in 1..Len(list) : fits(list[k], invoice) }

minimum(S) == CHOOSE k \in S : \A h \in S : k <= h

without_position(list, m) ==
    [k \in 1..(Len(list) - 1) |-> IF k < m THEN list[k] ELSE list[k + 1]]

\* Payment row p is booked under the key the lookup of the invoice reads
counts_toward(p, invoice) ==
    /\ p \in credited_rows
    /\ extracted(p) = Some(invoice.number)
    /\ invoice.klient \in variants_of_payer(p)

---------------------------------------------------------------------------
(* C1 *)

\* C1: while the payments are aggregated, a handled payment is in the unmatched
\* list if and only if extract_invoice_number found no number in its
\* description, which is so exactly when the description holds no digit; a
\* payment whose description yields a number, 0 included, is credited to the
\* aggregation map and is not in the unmatched list.
C1_UnmatchedIffNoNumber ==
    pc = "payments" =>
        \A p \in processed_rows :
            /\ (p \in Range(unmatched_src)) <=> (extracted(p) = None)
            /\ (extracted(p) = None) <=>
                   (\A k \in 1..Len(payments_df[p].description) :
                        ~IsDigit(payments_df[p].description[k]))
            /\ extracted(p) # None =>
                   (p \in credited_rows /\ p \notin Range(unmatched_src))

---------------------------------------------------------------------------
(* C2 *)

first_comma(name) ==
    CHOOSE k \in 1..Len(name) : name[k] = "," /\ \A h \in 1..(k-1) : name[h] # ","

\* C2: normalize_name never raises; it returns a non-empty set, and for a name
\* with a comma exactly the one variant made of the title-cased, trimmed part
\* after the first comma, a space, and the title-cased, trimmed part before it.
C2_NormalizeNeverFails ==
    /\ nn_pc # "raised"
    /\ nn_pc = "returned" =>
          /\ nn_result # {}
          /\ "," \in Range(nn_name) =>
                nn_result =
                   { title(strip(SubSeq(nn_name, first_comma(nn_name) + 1, Len(nn_name))))
                     \o <<" ">>
                     \o title(strip(SubSeq(nn_name, 1, first_comma(nn_name) - 1))) }

---------------------------------------------------------------------------
(* C3 *)

fallback_count == Cardinality({ i \in 1..Len(outcome) : outcome[i] = "fallback" })

\* Invoice i enters the fallback and the entry fits it
wants(i, entry) ==
    /\ looked_up(invoices_df[i]) < invoices_df[i].summa
    /\ ~normalize_name_raises(invoices_df[i].klient)
    /\ fits(entry, invoices_df[i])

\* C3: once aggregation is over, the number of invoices settled by the fallback
\* plus the length of the unmatched list equals the length the list had when
\* aggregation ended (every settlement removes exactly one entry, no entry is
\* used twice); and when that list held a single payment, of the invoices it
\* fits only the first in input order is cleared, every later one is a debtor.
C3_ConsumedAtMostOnce ==
    unmatched_at_agg # None =>
        /\ fallback_count + Len(unmatched_payments) = Len(unmatched_at_agg[1])
        /\ Len(unmatched_at_agg[1]) = 1 =>
              \A j \in 1..Len(outcome) :
                  wants(j, unmatched_at_agg[1][1]) =>
                      outcome[j] = IF \E i \in 1..(j-1) : wants(i, unmatched_at_agg[1][1])
                                   THEN "debtor" ELSE "fallback"

C3_Witness ==
    /\ unmatched_at_agg # None
    /\ Len(unmatched_at_agg[1]) = 1
    /\ Len(outcome) >= 2
    /\ invoices_df[1].klient = invoices_df[2].klient
    /\ invoices_df[1].summa = invoices_df[2].summa
    /\ wants(1, unmatched_at_agg[1][1])
    /\ outcome[1] = "fallback"
    /\ outcome[2] = "debtor"
    /\ unmatched_payments = <<>>

---------------------------------------------------------------------------
(* C4 *)

\* The handled payments whose extracted number and payer variants give the key
producers(key) ==
    { p \in processed_rows :
         extracted(p) = Some(key[2]) /\ key[1] \in variants_of_payer(p) }

\* C4: for every key (variant, number) of the aggregation map the stored total
\* is the sum of the full amounts of the handled payments whose extracted number
\* is that number and whose payer variant set holds that variant; a payment
\* whose variant set has two orderings has its whole amount under both keys; no
\* key is there that no such payment produced.
C4_TotalsPerKey ==
    /\ \A key \in DOMAIN invoice_payments :
          /\ invoice_payments[key] = sum_of_amounts(producers(key))
          /\ producers(key) # {}
    /\ \A p \in processed_rows :
          (extracted(p) # None /\ Cardinality(variants_of_payer(p)) = 2) =>
              \A v \in variants_of_payer(p) :
                  /\ <<v, extracted(p)[1]>> \in DOMAIN invoice_payments
                  /\ p \in producers(<<v, extracted(p)[1]>>)

---------------------------------------------------------------------------
(* C5 *)

\* One invoice has just been handled
C5_Step ==
    (pc = "invoices" /\ ii' = ii + 1) =>
        LET invoice == invoices_df[ii]
            paid == looked_up(invoice)
        IN IF paid >= invoice.summa
           THEN debtors' = debtors /\ unmatched_payments' = unmatched_payments
           ELSE IF fitting_positions(unmatched_payments, invoice) # {}
           THEN debtors' = debtors
           ELSE debtors' = Append(debtors,
                                  [client |-> invoice.klient,
                                   invoice_number |-> invoice.number,
                                   invoice_date |-> invoice.kuupaev,
                                   invoice_amount |-> invoice.summa,
                                   paid_amount |-> paid,
                                   debt |-> invoice.summa - paid])

\* No other step of the invoice loop touches the debtor list
C5_Rest == (pc = "invoices" /\ ii' = ii) => debtors' = debtors

C5_Example ==
    ( /\ pc = "returned"
      /\ invoices_df = <<InvoiceRow(10, MartTamm, 100)>>
      /\ payments_df = <<PaymentRow(TammMart, ArveNr10, 60)>> ) =>
        ( /\ Len(debtors) = 1
          /\ debtors[1].client = MartTamm
          /\ debtors[1].invoice_number = 10
          /\ debtors[1].paid_amount = 60
          /\ debtors[1].debt = 40 )

---------------------------------------------------------------------------
(* C6 *)

\* C6: the second call of analyze_debts on the same invoices and payments
\* returns the debtor list the first call returned.
C6_SameResultTwice == (run = 2 /\ pc = "returned") => debtors = first_result

C6_Witness ==
    /\ run = 2
    /\ pc = "returned"
    /\ \E i \in 1..Len(outcome) : outcome[i] = "fallback"
    /\ debtors # <<>>
    /\ debtors = first_result

---------------------------------------------------------------------------
(* C7 *)

\* C7: when an underpaid invoice has been through the fallback, the unmatched
\* list has lost the entry at the lowest position among those that fit the
\* invoice (variant sets intersect, amount equal to the invoice's total), the
\* other entries keeping their order; when no entry fits, the list is as it was.
C7_FirstFitRemoved ==
    [][ ( /\ pc = "invoices"
          /\ ii' = ii + 1
          /\ looked_up(invoices_df[ii]) < invoices_df[ii].summa ) =>
            LET hits == fitting_positions(unmatched_payments, invoices_df[ii])
            IN IF hits = {}
               THEN unmatched_payments' = unmatched_payments
               ELSE unmatched_payments' =
                       without_position(unmatched_payments, minimum(hits)) ]_vars

\* The first invoice was cleared by an entry that was not the first of the list
C7_Witness ==
    /\ unmatched_at_agg # None
    /\ Len(unmatched_at_agg[1]) >= 2
    /\ Len(outcome) >= 1
    /\ outcome[1] = "fallback"
    /\ ~fits(unmatched_at_agg[1][1], invoices_df[1])
    /\ unmatched_at_agg[1][1] \in Range(unmatched_payments)

---------------------------------------------------------------------------
(* C8 *)

\* A .pdf file whose text can be had and holds every field
complete(doc) == doc.is_pdf /\ doc.has_text /\ \A f \in RequiredFields : doc[f] # None

\* The files among the first n that are to be stored: complete, and with a
\* number no earlier such file has
RECURSIVE to_be_stored(_)
to_be_stored(n) ==
    IF n = 0 THEN {}
    ELSE LET before == to_be_stored(n - 1)
         IN IF /\ complete(documents[n])
               /\ \A k \in before : documents[k].number # documents[n].number
            THEN before \cup {n}
            ELSE before

RECURSIVE in_order(_, _)
in_order(S, n) ==
    IF n = 0 THEN <<>>
    ELSE IF n \in S THEN Append(in_order(S, n - 1), n) ELSE in_order(S, n - 1)

\* C8: once the table has been rebuilt, it holds, in file order, one row for
\* every file handled so far that carries all five fields and whose number no
\* earlier stored file has, and nothing else, so the numbers are pairwise
\* distinct and no row of an earlier run or of a skipped file is there; every
\* other .pdf file handled so far has been reported; total_processed is the
\* number of rows; and when the run is done every file has been handled.
C8_StoreHoldsValidUnique ==
    ppc \in {"files", "done"} =>
        LET kept == in_order(to_be_stored(fi - 1), fi - 1)
            skipped == in_order({ k \in 1..(fi - 1) : documents[k].is_pdf }
                                   \ to_be_stored(fi - 1), fi - 1)
        IN /\ Len(arved) = Len(kept)
           /\ \A k \in 1..Len(kept) :
                 /\ Some(arved[k].number) = documents[kept[k]].number
                 /\ Some(arved[k].klient) = documents[kept[k]].klient
                 /\ Some(arved[k].kuupaev) = documents[kept[k]].kuupaev
                 /\ Some(arved[k].tahtaeg) = documents[kept[k]].tahtaeg
                 /\ Some(arved[k].summa) = documents[kept[k]].summa
           /\ \A j, k \in 1..Len(arved) : arved[j].number = arved[k].number => j = k
           /\ reported = skipped
           /\ total_processed = Len(arved)
           /\ ppc = "done" => fi = Len(documents) + 1

\* The second file, incomplete or with the number of the first, was reported
\* and the third file was stored after it
C8_Witness ==
    /\ ppc = "done"
    /\ Len(documents) = 3
    /\ complete(documents[1])
    /\ ~complete(documents[2]) \/ documents[2].number = documents[1].number
    /\ reported = <<2>>
    /\ Len(arved) = 2
    /\ Some(arved[2].number) = documents[3].number

---------------------------------------------------------------------------
(* C9 *)

\* C9: no key of the aggregation map has a name with a comma; an invoice whose
\* raw client name has a comma is looked up as paid 0, and if its amount is
\* positive it is, once analyze_debts has got to it, either cleared by the
\* fallback or a debtor with paid_amount 0 and debt equal to its amount.
C9_CommaClients ==
    /\ \A key \in DOMAIN invoice_payments : "," \notin Range(key[1])
    /\ unmatched_at_agg # None =>
          \A i \in 1..Len(invoices_df) :
              ("," \in Range(invoices_df[i].klient) /\ taken_up(i)) =>
                  /\ looked_up(invoices_df[i]) = 0
                  /\ invoices_df[i].summa > 0 =>
                        /\ i <= Len(outcome)
                        /\ \/ outcome[i] = "fallback"
                           \/ /\ outcome[i] = "debtor"
                              /\ \E d \in 1..Len(debtors) :
                                    /\ debtors[d].invoice_number = invoices_df[i].number
                                    /\ debtors[d].client = invoices_df[i].klient
                                    /\ debtors[d].paid_amount = 0
                                    /\ debtors[d].debt = invoices_df[i].summa

---------------------------------------------------------------------------
(* C10 *)

\* C10: with pairwise distinct invoice numbers, a payment credited to the
\* aggregation map is not in the unmatched list, counts toward the looked-up
\* paid amount of at most one invoice, and the paid amount of every invoice is
\* the sum, each amount once, of the credited payments that count toward it; a
\* payment of the unmatched list is in no paid amount, and no payment clears
\* more than one invoice through the fallback.
C10_PaymentCountsOnce ==
    /\ \A p \in credited_rows : p \notin Range(unmatched_src)
    /\ \A i \in 1..Len(cleared_by) : cleared_by[i] # 0 =>
          /\ cleared_by[i] \notin credited_rows
          /\ \A j \in 1..Len(cleared_by) : cleared_by[j] = cleared_by[i] => j = i
    /\ unmatched_at_agg # None =>
          /\ \A p \in processed_rows :
                Cardinality({ i \in 1..Len(invoices_df) :
                                 counts_toward(p, invoices_df[i]) }) <= 1
          /\ \A i \in 1..Len(invoices_df) :
                paid_amount_of(invoice_payments, invoices_df[i]) =
                    sum_of_amounts({ p \in processed_rows :
                                        counts_toward(p, invoices_df[i]) })

\* A payment booked under two keys is part of the paid amount of an invoice that
\* another payment has cleared through the fallback
C10_Witness ==
    /\ unmatched_at_agg # None
    /\ \E i \in 1..Len(cleared_by) :
          /\ cleared_by[i] # 0
          /\ \E p \in credited_rows :
                /\ counts_toward(p, invoices_df[i])
                /\ Cardinality(variants_of_payer(p)) = 2

=============================================================================
